---------------------------- MODULE Spec2Model ----------------------------
(***************************************************************************)
(* A model of bot/utils/time.py: the delta humanizer (_stringify_time_unit *)
(* and humanize_delta), the expiry/infraction formatters built on it, and  *)
(* the deadline waiter wait_until.                                         *)
(*                                                                         *)
(* Python str values are TLA+ strings; Len, SubSeq and \o act on them as   *)
(* len(), slicing and + do in Python.  None is the record NoneVal.  A call *)
(* ends in an outcome record: Return(v) or Raise(exception name).          *)
(***************************************************************************)
EXTENDS Integers, Sequences, FiniteSets, TLC

(***************************************************************************)
(* Bounds of the humanizer model.                                          *)
(***************************************************************************)
\* The largest value a delta field or a stringified value takes.
MaxValue == 12
\* max_units ranges over MinUnits .. MaxUnits.
MaxUnits == 7

MinUnits == 0 - 1

(***************************************************************************)
(* Python values.                                                          *)
(***************************************************************************)
NoneVal == [none |-> TRUE]
Pending == [kind |-> "pending"]
Return(v) == [kind |-> "return", value |-> v]
Raise(e) == [kind |-> "raise", exc |-> e]

\* The six unit labels in the order of the `units` tuple of humanize_delta.
UNITS == <<"years", "months", "days", "hours", "minutes", "seconds">>

UnitSet == {UNITS[i] : i \in 1..Len(UNITS)}

\* unit[:-1]
DropLast(s) == SubSeq(s, 1, Len(s) - 1)

(***************************************************************************)
(* _stringify_time_unit(value, unit)                                       *)
(***************************************************************************)
\* A variant without the "0 seconds" case.
stringify_without_seconds_floor(value, unit) ==
    IF value = 1 THEN ToString(value) \o " " \o DropLast(unit)
    ELSE IF value = 0 THEN "less than a " \o DropLast(unit)
    ELSE ToString(value) \o " " \o unit

stringify_time_unit(value, unit) ==
    IF unit = "seconds" /\ value = 0 THEN "0 seconds"
    ELSE IF value = 1 THEN ToString(value) \o " " \o DropLast(unit)
    ELSE IF value = 0 THEN "less than a " \o DropLast(unit)
    ELSE ToString(value) \o " " \o unit

(***************************************************************************)
(* humanize_delta(delta, precision, max_units)                             *)
(***************************************************************************)
\* The `units` tuple: (label, delta.<label>) pairs, coarsest first.
units(delta) == [i \in 1..Len(UNITS) |-> <<UNITS[i], delta[UNITS[i]]>>]

\* A variant of the loop that stops only once unit_count exceeds max_units.
RECURSIVE collect_one_too_many(_, _, _, _, _, _)
collect_one_too_many(us, precision, max_units, i, time_strings, unit_count) ==
    IF i > Len(us) THEN time_strings
    ELSE LET unit  == us[i][1]
             value == us[i][2]
             ts == IF value # 0
                   THEN Append(time_strings, stringify_time_unit(value, unit))
                   ELSE time_strings
             uc == IF value # 0 THEN unit_count + 1 ELSE unit_count
         IN  IF unit = precision \/ uc > max_units
             THEN ts
             ELSE collect_one_too_many(us, precision, max_units, i + 1, ts, uc)

\* A variant of the loop that tests for the precision unit only when the
\* unit's value is not zero.
RECURSIVE collect_past_zero_precision(_, _, _, _, _, _)
collect_past_zero_precision(us, precision, max_units, i, time_strings, unit_count) ==
    IF i > Len(us) THEN time_strings
    ELSE LET unit  == us[i][1]
             value == us[i][2]
             ts == IF value # 0
                   THEN Append(time_strings, stringify_time_unit(value, unit))
                   ELSE time_strings
             uc == IF value # 0 THEN unit_count + 1 ELSE unit_count
         IN  IF (value # 0 /\ unit = precision) \/ uc >= max_units
             THEN ts
             ELSE collect_past_zero_precision(us, precision, max_units, i + 1, ts, uc)

\* The for loop: from the i-th pair on, with the phrases appended so far and
\* unit_count; the value is time_strings when the loop ends or breaks.
RECURSIVE collect(_, _, _, _, _, _)
collect(us, precision, max_units, i, time_strings, unit_count) ==
    IF i > Len(us) THEN time_strings
    ELSE LET unit  == us[i][1]
             value == us[i][2]
             ts == IF value # 0
                   THEN Append(time_strings, stringify_time_unit(value, unit))
                   ELSE time_strings
             uc == IF value # 0 THEN unit_count + 1 ELSE unit_count
         IN  IF unit = precision \/ uc >= max_units
             THEN ts
             ELSE collect(us, precision, max_units, i + 1, ts, uc)

\* A variant of the merge without `del time_strings[-2]`.
merge_last_without_del(ts) ==
    IF Len(ts) > 1
    THEN Append(SubSeq(ts, 1, Len(ts) - 1),
                ts[Len(ts) - 1] \o " and " \o ts[Len(ts)])
    ELSE ts

\* if len(time_strings) > 1: merge the last two with " and ".
merge_last(ts) ==
    IF Len(ts) > 1
    THEN Append(SubSeq(ts, 1, Len(ts) - 2),
                ts[Len(ts) - 1] \o " and " \o ts[Len(ts)])
    ELSE ts

\* ", ".join(parts)
RECURSIVE join(_, _)
join(sep, parts) ==
    IF Len(parts) = 0 THEN ""
    ELSE IF Len(parts) = 1 THEN parts[1]
    ELSE parts[1] \o sep \o join(sep, Tail(parts))

\* A variant without the fallback for an empty phrase list.
humanized_without_fallback(ts, precision) == join(", ", merge_last(ts))

\* A variant whose fallback is always in seconds.
humanized_fallback_in_seconds(ts, precision) ==
    IF Len(merge_last(ts)) = 0
    THEN stringify_time_unit(0, "seconds")
    ELSE join(", ", merge_last(ts))

\* The string humanize_delta returns from the phrases the loop appended.
humanized(ts, precision) ==
    IF Len(merge_last(ts)) = 0
    THEN stringify_time_unit(0, precision)
    ELSE join(", ", merge_last(ts))

\* A variant of the check that lets max_units = 0 through.
max_units_negative(max_units) == max_units < 0

\* The max_units check that opens humanize_delta.
max_units_invalid(max_units) == max_units <= 0

humanize_delta(delta, precision, max_units) ==
    IF max_units_invalid(max_units)
    THEN Raise("ValueError")
    ELSE Return(humanized(collect(units(delta), precision, max_units, 1, <<>>, 0),
                          precision))

(***************************************************************************)
(* Optional values: None, or Some(v).  `not x` holds of None and of "".    *)
(***************************************************************************)
Some(v) == [some |-> v]

Falsy(o) == o = NoneVal \/ o = Some("")

(***************************************************************************)
(* datetime values: records of the calendar fields, naive (no tzinfo).     *)
(* The timestamps of the model lie in one calendar month, where the        *)
(* year and month difference relativedelta() starts from is zero.          *)
(***************************************************************************)
Digit == <<"0", "1", "2", "3", "4", "5", "6", "7", "8", "9">>

\* Microseconds in a second (datetime resolution).
Micros == 1000 * 1000

datetime(y, mo, d, h, mi, s, us) ==
    [year |-> y, month |-> mo, day |-> d, hour |-> h, minute |-> mi,
     second |-> s, microsecond |-> us]

\* int() of a string of decimal digits.
DigitValue(c) == CHOOSE d \in 0..9 : Digit[d + 1] = c

RECURSIVE ParseInt(_)
ParseInt(s) ==
    IF Len(s) = 0 THEN 0
    ELSE 10 * ParseInt(SubSeq(s, 1, Len(s) - 1)) + DigitValue(SubSeq(s, Len(s), Len(s)))

\* A number as zero-padded decimal digits of the given width (%Y, %m, %d, %H, %M).
RECURSIVE Padded(_, _)
Padded(n, width) ==
    IF width = 0 THEN ""
    ELSE Padded(n \div 10, width - 1) \o Digit[(n % 10) + 1]

\* datetime.isoformat(): "YYYY-MM-DDTHH:MM:SS", with ".ffffff" when the
\* microsecond is not zero.  The callers' timestamps are written this way.
isoformat(dt) ==
    Padded(dt.year, 4) \o "-" \o Padded(dt.month, 2) \o "-" \o Padded(dt.day, 2)
    \o "T" \o Padded(dt.hour, 2) \o ":" \o Padded(dt.minute, 2) \o ":"
    \o Padded(dt.second, 2)
    \o (IF dt.microsecond = 0 THEN "" ELSE "." \o Padded(dt.microsecond, 6))

\* dateutil.parser.isoparse on "YYYY-MM-DDTHH:MM:SS[.ffffff]".
isoparse(s) ==
    datetime(ParseInt(SubSeq(s, 1, 4)), ParseInt(SubSeq(s, 6, 7)),
             ParseInt(SubSeq(s, 9, 10)), ParseInt(SubSeq(s, 12, 13)),
             ParseInt(SubSeq(s, 15, 16)), ParseInt(SubSeq(s, 18, 19)),
             IF Len(s) > 19 THEN ParseInt(SubSeq(s, 21, 26)) ELSE 0)

\* .replace(tzinfo=None, microsecond=0)
replace_microsecond_0(dt) == [dt EXCEPT !.microsecond = 0]

\* Whole seconds of dt since the start of its month.
SecondsInMonth(dt) ==
    (((dt.day - 1) * 24 + dt.hour) * 60 + dt.minute) * 60 + dt.second

\* a < b on datetimes of one month.
Before(a, b) ==
    \/ SecondsInMonth(a) < SecondsInMonth(b)
    \/ SecondsInMonth(a) = SecondsInMonth(b) /\ a.microsecond < b.microsecond

\* .strftime(INFRACTION_FORMAT), "%Y-%m-%d %H:%M"
strftime_infraction(dt) ==
    Padded(dt.year, 4) \o "-" \o Padded(dt.month, 2) \o "-" \o Padded(dt.day, 2)
    \o " " \o Padded(dt.hour, 2) \o ":" \o Padded(dt.minute, 2)

Sign(n) == IF n < 0 THEN 0 - 1 ELSE 1
Abs(n) == IF n < 0 THEN 0 - n ELSE n

\* relativedelta(dt1, dt2) for two datetimes of one month: the timedelta
\* dt1 - dt2 as floor seconds and a microsecond rest in 0 .. Micros-1, the
\* seconds then carried into minutes, hours and days keeping their sign.
relativedelta(dt1, dt2) ==
    LET ds   == SecondsInMonth(dt1) - SecondsInMonth(dt2)
        dus  == dt1.microsecond - dt2.microsecond
        secs == IF dus < 0 THEN ds - 1 ELSE ds
        sg   == Sign(secs)
        a    == Abs(secs)
    IN  [years   |-> 0,
         months  |-> 0,
         days    |-> sg * (a \div 86400),
         hours   |-> sg * ((a \div 3600) % 24),
         minutes |-> sg * ((a \div 60) % 60),
         seconds |-> sg * (a % 60)]

\* abs(delta)
abs_delta(d) == [u \in DOMAIN d |-> Abs(d[u])]

(***************************************************************************)
(* format_infraction(timestamp)                                            *)
(***************************************************************************)
format_infraction(timestamp) == strftime_infraction(isoparse(timestamp))

\* `date_from or utcnow()`, `now or utcnow()`: a datetime is always truthy.
or_utcnow(opt, utcnow) == IF opt = NoneVal THEN utcnow ELSE opt.some

(***************************************************************************)
(* format_infraction_with_duration(date_to, date_from, max_units, absolute)*)
(* called when datetime.utcnow() reads utcnow.                             *)
(***************************************************************************)
\* The delta handed to humanize_delta.
infraction_delta(date_to, date_from, absolute, utcnow) ==
    LET d == relativedelta(replace_microsecond_0(isoparse(date_to.some)),
                           or_utcnow(date_from, utcnow))
    IN  IF absolute THEN abs_delta(d) ELSE d

format_infraction_with_duration(date_to, date_from, mu, absolute, utcnow) ==
    IF Falsy(date_to) THEN Return(NoneVal)
    ELSE LET date_to_formatted == format_infraction(date_to.some)
             duration == humanize_delta(
                             infraction_delta(date_to, date_from, absolute, utcnow),
                             "seconds", mu)
         IN  IF duration.kind = "raise" THEN duration
             ELSE Return(Some(date_to_formatted
                              \o (IF duration.value # ""
                                  THEN " (" \o duration.value \o ")"
                                  ELSE "")))

(***************************************************************************)
(* until_expiration(expiry, now, max_units), called when datetime.utcnow() *)
(* reads utcnow.                                                           *)
(***************************************************************************)
\* `since`: the parsed expiry with its microseconds dropped.
expiry_since(expiry) == replace_microsecond_0(isoparse(expiry.some))

until_expiration(expiry, now, mu, utcnow) ==
    IF Falsy(expiry) THEN Return(NoneVal)
    ELSE IF Before(expiry_since(expiry), or_utcnow(now, utcnow)) THEN Return(NoneVal)
    ELSE LET r == humanize_delta(
                      relativedelta(expiry_since(expiry), or_utcnow(now, utcnow)),
                      "seconds", mu)
         IN  IF r.kind = "raise" THEN r ELSE Return(Some(r.value))

(***************************************************************************)
(* wait_until(time, start), called when datetime.utcnow() reads utcnow.    *)
(***************************************************************************)
\* (a - b).total_seconds(), in microseconds.
total_micros(a, b) ==
    (SecondsInMonth(a) - SecondsInMonth(b)) * Micros + (a.microsecond - b.microsecond)

\* delay = time - (start or datetime.datetime.utcnow())
wait_until_delay(time, start, utcnow) == total_micros(time, or_utcnow(start, utcnow))

\* A variant that also sleeps for exactly one second.
wait_until_sleeps_from_one_second(delay) == delay >= 1 * Micros

\* if delay_seconds > 1.0
wait_until_sleeps(delay) == delay > 1 * Micros

\* A variant that catches the cancellation and returns.
wait_until_swallows_cancel == Return(NoneVal)

\* What a wait_until call ends with when its sleep is cancelled: nothing in
\* wait_until catches the CancelledError that `await asyncio.sleep` raises.
wait_until_cancelled == Raise("CancelledError")

(***************************************************************************)
(* State.                                                                  *)
(***************************************************************************)
VARIABLES
    value, unit, sresult,          \* a call of _stringify_time_unit
    delta, precision, max_units,   \* a call of humanize_delta,
    time_strings, hresult,         \*   the phrases its loop appended, its outcome
    fn, date_arg, from_arg,        \* a call of until_expiration(date_arg, from_arg, e_max_units)
    e_max_units, absolute,         \*   or of format_infraction_with_duration(date_arg,
    utcnow, eresult,               \*   from_arg, e_max_units, absolute); the clock; its outcome
    clock,                         \* the event loop's time, in microseconds
    pc, w_time, w_start,           \* per task: position, the arguments of wait_until,
    called_at, slept, wake_at,     \*   the clock at the call, the sleep asked for, its end,
    cancelled, outcome             \*   whether the task was cancelled, how the call ended

sVars == <<value, unit, sresult>>
hVars == <<delta, precision, max_units, time_strings, hresult>>
eVars == <<fn, date_arg, from_arg, e_max_units, absolute, utcnow, eresult>>
wVars == <<clock, pc, w_time, w_start, called_at, slept, wake_at, cancelled, outcome>>

vars == <<sVars, hVars, eVars, wVars>>

\* Bounds of the expiry and waiting models.
\* The day, hour, minute and second offsets of a timestamp range over 0 .. MaxField.
MaxField == 1
\* max_units of the expiry functions ranges over 0 .. MaxExpiryUnits.
MaxExpiryUnits == 2
\* The loop's clock runs over 0 .. MaxTicks half seconds.
MaxTicks == 5

HalfSecond == Micros \div 2

Tasks == {"t1", "t2"}

ZeroDelta == [u \in UnitSet |-> 0]

\* The values a delta field is drawn from: zero, one, many.
FieldValues == {0, 1, MaxValue}

\* The largest absolute value a relativedelta holds in a field: it carries
\* 12 months into a year, 24 hours into a day, 60 minutes into an hour and
\* 60 seconds into a minute when it is built; years and days are not carried.
FieldLimit ==
    [years |-> MaxValue, months |-> 11, days |-> MaxValue,
     hours |-> 23, minutes |-> 59, seconds |-> 59]

Capped(v, u) == IF v > FieldLimit[u] THEN FieldLimit[u] ELSE v

\* The deltas of non-negative fields a relativedelta can hold.
PositiveDeltas ==
    {[u \in UnitSet |-> Capped(d[u], u)] : d \in [UnitSet -> FieldValues]}

\* A delta of the opposite sign, as relativedelta(earlier, later) gives.
Negated(d) == [u \in UnitSet |-> 0 - d[u]]

Deltas == PositiveDeltas \cup {Negated(d) : d \in PositiveDeltas}

\* Expiry timestamps, with and without a sub-second part.
ExpiryTimes ==
    {datetime(2020, 1, 1 + d, h, mi, s, us) :
        d \in 0..MaxField, h \in 0..MaxField, mi \in 0..MaxField,
        s \in 0..MaxField, us \in {0, HalfSecond}}

\* The values of `now` / `date_from` and of the clock.
NowTimes ==
    {datetime(2020, 1, 1, 0, mi, s, us) :
        mi \in 0..MaxField, s \in 0..MaxField, us \in {0, HalfSecond}}

\* The datetime n microseconds into the first hour of the model's month.
AtMicros(n) ==
    datetime(2020, 1, 1, 0, (n \div Micros) \div 60, (n \div Micros) % 60, n % Micros)

TickTimes == {AtMicros(k * HalfSecond) : k \in 0..MaxTicks}

StringifyIdle ==
    /\ value = 0
    /\ unit = "seconds"
    /\ sresult = Pending

HumanizeIdle ==
    /\ delta = ZeroDelta
    /\ precision = "seconds"
    /\ max_units = 6
    /\ time_strings = <<>>
    /\ hresult = Pending

ExpiryIdle ==
    /\ fn = "until_expiration"
    /\ date_arg = NoneVal
    /\ from_arg = NoneVal
    /\ e_max_units = 2
    /\ absolute = TRUE
    /\ utcnow = AtMicros(0)
    /\ eresult = Pending

WaitIdle ==
    /\ clock = 0
    /\ pc = [t \in Tasks |-> "idle"]
    /\ w_time = [t \in Tasks |-> NoneVal]
    /\ w_start = [t \in Tasks |-> NoneVal]
    /\ called_at = [t \in Tasks |-> 0]
    /\ slept = [t \in Tasks |-> NoneVal]
    /\ wake_at = [t \in Tasks |-> 0]
    /\ cancelled = [t \in Tasks |-> FALSE]
    /\ outcome = [t \in Tasks |-> Pending]

(***************************************************************************)
(* Specification of _stringify_time_unit calls.                            *)
(***************************************************************************)
InitStringify ==
    /\ value \in 0..MaxValue
    /\ unit \in UnitSet
    /\ sresult = Pending
    /\ HumanizeIdle /\ ExpiryIdle /\ WaitIdle

CallStringify ==
    /\ sresult = Pending
    /\ sresult' = Return(stringify_time_unit(value, unit))
    /\ UNCHANGED <<value, unit, hVars, eVars, wVars>>

SpecStringify == InitStringify /\ [][CallStringify]_vars

(***************************************************************************)
(* Specification of humanize_delta calls.                                  *)
(***************************************************************************)
InitHumanize ==
    /\ delta \in Deltas
    /\ precision \in UnitSet
    /\ max_units \in MinUnits..MaxUnits
    /\ time_strings = <<>>
    /\ hresult = Pending
    /\ StringifyIdle /\ ExpiryIdle /\ WaitIdle

CallHumanize ==
    /\ hresult = Pending
    /\ hresult' = humanize_delta(delta, precision, max_units)
    /\ time_strings' = IF max_units_invalid(max_units) THEN <<>>
                       ELSE collect(units(delta), precision, max_units, 1, <<>>, 0)
    /\ UNCHANGED <<delta, precision, max_units, sVars, eVars, wVars>>

SpecHumanize == InitHumanize /\ [][CallHumanize]_vars

(***************************************************************************)
(* Specification of until_expiration and format_infraction_with_duration   *)
(* calls.                                                                  *)
(***************************************************************************)
InitExpiry ==
    /\ fn \in {"until_expiration", "format_infraction_with_duration"}
    /\ date_arg \in {NoneVal, Some("")} \cup {Some(isoformat(t)) : t \in ExpiryTimes}
    /\ from_arg \in {NoneVal} \cup {Some(t) : t \in NowTimes}
    /\ utcnow \in (IF from_arg = NoneVal THEN NowTimes ELSE {AtMicros(0)})
    /\ e_max_units \in 0..MaxExpiryUnits
    /\ absolute \in (IF fn = "until_expiration" THEN {TRUE} ELSE BOOLEAN)
    /\ eresult = Pending
    /\ StringifyIdle /\ HumanizeIdle /\ WaitIdle

CallUntilExpiration ==
    /\ fn = "until_expiration"
    /\ eresult = Pending
    /\ eresult' = until_expiration(date_arg, from_arg, e_max_units, utcnow)
    /\ UNCHANGED <<fn, date_arg, from_arg, e_max_units, absolute, utcnow>>
    /\ UNCHANGED <<sVars, hVars, wVars>>

CallFormatInfractionWithDuration ==
    /\ fn = "format_infraction_with_duration"
    /\ eresult = Pending
    /\ eresult' = format_infraction_with_duration(date_arg, from_arg, e_max_units,
                                                  absolute, utcnow)
    /\ UNCHANGED <<fn, date_arg, from_arg, e_max_units, absolute, utcnow>>
    /\ UNCHANGED <<sVars, hVars, wVars>>

NextExpiry == CallUntilExpiration \/ CallFormatInfractionWithDuration

SpecExpiry == InitExpiry /\ [][NextExpiry]_vars

(***************************************************************************)
(* Specification of tasks calling wait_until on one event loop.            *)
(***************************************************************************)
InitWait == WaitIdle /\ StringifyIdle /\ HumanizeIdle /\ ExpiryIdle

\* Time passes.
Tick ==
    /\ clock < MaxTicks * HalfSecond
    /\ clock' = clock + HalfSecond
    /\ UNCHANGED <<pc, w_time, w_start, called_at, slept, wake_at, cancelled, outcome>>
    /\ UNCHANGED <<sVars, hVars, eVars>>

\* Task t calls wait_until(time, start): it either starts asyncio.sleep(delay)
\* or returns in the same step.
WaitUntil(t, time, start) ==
    LET delay == wait_until_delay(time, start, AtMicros(clock)) IN
    /\ pc[t] = "idle"
    /\ wait_until_sleeps(delay) => clock + delay <= MaxTicks * HalfSecond
    /\ w_time' = [w_time EXCEPT ![t] = Some(time)]
    /\ w_start' = [w_start EXCEPT ![t] = start]
    /\ called_at' = [called_at EXCEPT ![t] = clock]
    /\ IF wait_until_sleeps(delay)
       THEN /\ pc' = [pc EXCEPT ![t] = "suspended"]
            /\ slept' = [slept EXCEPT ![t] = Some(delay)]
            /\ wake_at' = [wake_at EXCEPT ![t] = clock + delay]
            /\ UNCHANGED outcome
       ELSE /\ pc' = [pc EXCEPT ![t] = "done"]
            /\ outcome' = [outcome EXCEPT ![t] = Return(NoneVal)]
            /\ UNCHANGED <<slept, wake_at>>
    /\ UNCHANGED <<clock, cancelled>>
    /\ UNCHANGED <<sVars, hVars, eVars>>

\* The sleep of task t is over: the loop resumes it and wait_until returns.
Resume(t) ==
    /\ pc[t] = "suspended"
    /\ clock >= wake_at[t]
    /\ pc' = [pc EXCEPT ![t] = "done"]
    /\ outcome' = [outcome EXCEPT ![t] = Return(NoneVal)]
    /\ UNCHANGED <<clock, w_time, w_start, called_at, slept, wake_at, cancelled>>
    /\ UNCHANGED <<sVars, hVars, eVars>>

\* Task t is cancelled while suspended in the sleep.
Cancel(t) ==
    /\ pc[t] = "suspended"
    /\ cancelled' = [cancelled EXCEPT ![t] = TRUE]
    /\ pc' = [pc EXCEPT ![t] = "done"]
    /\ outcome' = [outcome EXCEPT ![t] = wait_until_cancelled]
    /\ UNCHANGED <<clock, w_time, w_start, called_at, slept, wake_at>>
    /\ UNCHANGED <<sVars, hVars, eVars>>

NextWait ==
    \/ Tick
    \/ \E t \in Tasks, time \in TickTimes, start \in {NoneVal} \cup {Some(x) : x \in TickTimes} :
          WaitUntil(t, time, start)
    \/ \E t \in Tasks : Resume(t)
    \/ \E t \in Tasks : Cancel(t)

SpecWait == InitWait /\ [][NextWait]_vars

\* The clock advances and the loop runs a task whose sleep is over.
FairSpecWait ==
    /\ SpecWait
    /\ WF_vars(Tick)
    /\ \A t \in Tasks : WF_vars(Resume(t))

(***************************************************************************)
(* The whole module: a call of any of its functions.                       *)
(***************************************************************************)
Init == InitStringify \/ InitHumanize \/ InitExpiry \/ InitWait

\* One part of the module acts while the others stay as they began.
Next ==
    \/ HumanizeIdle /\ ExpiryIdle /\ WaitIdle /\ CallStringify
    \/ StringifyIdle /\ ExpiryIdle /\ WaitIdle /\ CallHumanize
    \/ StringifyIdle /\ HumanizeIdle /\ WaitIdle /\ NextExpiry
    \/ StringifyIdle /\ HumanizeIdle /\ ExpiryIdle /\ NextWait

Spec == Init /\ [][Next]_vars

(***************************************************************************)
(* Vocabulary of the properties: the expected texts are written out here   *)
(* independently of the operators above.                                   *)
(***************************************************************************)
Singular == [years |-> "year", months |-> "month", days |-> "day",
             hours |-> "hour", minutes |-> "minute", seconds |-> "second"]

\* The decimal numeral of a natural number.
RECURSIVE Numeral(_)
Numeral(n) == IF n < 10 THEN Digit[n + 1]
              ELSE Numeral(n \div 10) \o Digit[(n % 10) + 1]

\* The positions at which p occurs in s.
Occurrences(p, s) ==
    {i \in 1..(Len(s) - Len(p) + 1) : SubSeq(s, i, i + Len(p) - 1) = p}

Count(p, s) == Cardinality(Occurrences(p, s))

\* The position of the unit label in UNITS (1 is the coarsest).
UnitIndex(u) == CHOOSE i \in 1..Len(UNITS) : UNITS[i] = u

\* The first position at which unit UNITS[i] is mentioned in s.
FirstMention(i, s) ==
    CHOOSE p \in Occurrences(Singular[UNITS[i]], s) :
        \A q \in Occurrences(Singular[UNITS[i]], s) : p <= q

Mentioned(i, s) == Occurrences(Singular[UNITS[i]], s) # {}

\* The number of unit phrases in a humanized string.
PhraseCount(s) == 1 + Count(", ", s) + Count(" and ", s)

Returned(r) == r.kind = "return"
Raised(r) == r.kind = "raise"

\* Every unit from years down to precision is zero in delta.
ZeroDownTo(d, p) == \A i \in 1..UnitIndex(p) : d[UNITS[i]] = 0

\* The phrases p1..pk put together left to right: ", " before every phrase
\* but the last, " and " before the last.
RECURSIVE Listing(_, _)
Listing(ps, k) ==
    IF k = 1 THEN ps[1]
    ELSE Listing(ps, k - 1) \o (IF k = Len(ps) THEN " and " ELSE ", ") \o ps[k]

(***************************************************************************)
(* C1: humanize_delta raises ValueError whenever max_units <= 0, for every *)
(* delta and precision, returning no string; for every max_units >= 1 it   *)
(* returns a string and does not raise.                                    *)
(***************************************************************************)
C1_RaisesIffNonPositive ==
    hresult # Pending =>
        /\ max_units <= 0 => hresult = Raise("ValueError")
        /\ max_units >= 1 => Returned(hresult)

C1_Witness ==
    /\ hresult = Raise("ValueError")
    /\ max_units = 0
    /\ delta["days"] = 1

(***************************************************************************)
(* C2: for every max_units >= 1 the returned string holds at most          *)
(* max_units unit phrases; with max_units = 1 it is a single phrase with   *)
(* no " and " and no ", ".                                                 *)
(***************************************************************************)
C2_AtMostMaxUnits ==
    Returned(hresult) =>
        /\ Len(time_strings) <= max_units
        /\ PhraseCount(hresult.value) <= max_units
        /\ max_units = 1 =>
              /\ Count(" and ", hresult.value) = 0
              /\ Count(", ", hresult.value) = 0

C2_Witness ==
    /\ Returned(hresult)
    /\ max_units = 1
    /\ delta["days"] = MaxValue
    /\ delta["hours"] = 1
    /\ precision = "seconds"
    /\ hresult.value = Numeral(MaxValue) \o " days"

(***************************************************************************)
(* C3: the output never mentions a unit finer than precision: the loop     *)
(* halts at the precision unit whether or not its value is zero, so only   *)
(* units from years down to precision are mentioned, each at most once and *)
(* coarsest first.                                                         *)
(***************************************************************************)
C3_NothingFinerThanPrecision ==
    Returned(hresult) =>
        /\ \A i \in 1..Len(UNITS) :
              /\ i > UnitIndex(precision) => ~Mentioned(i, hresult.value)
              /\ Count(Singular[UNITS[i]], hresult.value) <= 1
        /\ \A i, j \in 1..Len(UNITS) :
              (i < j /\ Mentioned(i, hresult.value) /\ Mentioned(j, hresult.value))
                  => FirstMention(i, hresult.value) < FirstMention(j, hresult.value)

C3_Witness ==
    /\ Returned(hresult)
    /\ precision = "hours"
    /\ delta["days"] = 1
    /\ delta["hours"] = 0
    /\ delta["minutes"] = MaxValue
    /\ delta["seconds"] = 1
    /\ max_units = 6
    /\ hresult.value = "1 day"

(***************************************************************************)
(* C4: when every unit from years down to precision is zero, the result is *)
(* "0 seconds" for precision "seconds" and "less than a <singular unit>"   *)
(* for any other precision, whatever the finer units hold; the result is   *)
(* never the empty string.                                                 *)
(***************************************************************************)
C4_ZeroFallback ==
    Returned(hresult) =>
        /\ hresult.value # ""
        /\ ZeroDownTo(delta, precision) =>
              hresult.value = IF precision = "seconds" THEN "0 seconds"
                              ELSE "less than a " \o Singular[precision]

C4_Witness ==
    /\ Returned(hresult)
    /\ precision = "minutes"
    /\ ZeroDownTo(delta, precision)
    /\ delta["seconds"] = MaxValue
    /\ hresult.value = "less than a minute"

(***************************************************************************)
(* C5: for a non-negative value and each of the six plural labels,         *)
(* _stringify_time_unit gives "0 seconds" for (0, seconds), "1 <singular>" *)
(* for value 1, "less than a <singular>" for 0 of another unit, and        *)
(* "<value> <plural>" otherwise; (0, seconds) is never "less than a        *)
(* second".                                                                *)
(***************************************************************************)
C5_StringifyCases ==
    sresult # Pending =>
        /\ Returned(sresult)
        /\ sresult.value =
              IF unit = "seconds" /\ value = 0 THEN "0 seconds"
              ELSE IF value = 1 THEN "1 " \o Singular[unit]
              ELSE IF value = 0 THEN "less than a " \o Singular[unit]
              ELSE Numeral(value) \o " " \o unit
        /\ (unit = "seconds" /\ value = 0) => sresult.value # "less than a second"

C5_Witness ==
    /\ sresult = Return("0 seconds")
    /\ value = 0
    /\ unit = "seconds"

(***************************************************************************)
(* C10: when the loop appended k >= 1 phrases p1..pk the result is p1 for  *)
(* k = 1, "p1 and p2" for k = 2, and for k >= 3 the phrases separated by   *)
(* ", " except the last two, which " and " separates: one " and ", k-2     *)
(* ", ", no phrase lost, duplicated or reordered.                          *)
(***************************************************************************)
C10_MergeAndJoin ==
    (Returned(hresult) /\ Len(time_strings) >= 1) =>
        LET k == Len(time_strings) IN
        /\ hresult.value = Listing(time_strings, k)
        /\ Count(" and ", hresult.value) = (IF k >= 2 THEN 1 ELSE 0)
        /\ Count(", ", hresult.value) = (IF k >= 3 THEN k - 2 ELSE 0)
        /\ k = 2 => hresult.value = time_strings[1] \o " and " \o time_strings[2]
        /\ k = 1 => hresult.value = time_strings[1]

C10_Witness ==
    /\ Returned(hresult)
    /\ Len(time_strings) = 4
    /\ hresult.value = "-1 years, -" \o Numeral(MaxValue) \o " days, -1 hours and -1 seconds"


(***************************************************************************)
(* Vocabulary of the expiry and waiting properties.                        *)
(***************************************************************************)
\* The datetime the expiry functions take for `now`.
NowOf == IF from_arg = NoneVal THEN utcnow ELSE from_arg.some

\* The timestamp an ISO string of the model denotes, read off its text.
Denoted(s) == isoparse(s)

\* "YYYY-MM-DD HH:MM" cut out of the ISO text "YYYY-MM-DDTHH:MM:SS...".
DateAndMinute(s) == SubSeq(s, 1, 10) \o " " \o SubSeq(s, 12, 16)

\* Microseconds of a TickTimes datetime since the loop's clock was 0.
Offset(dt) == (dt.minute * 60 + dt.second) * Micros + dt.microsecond

\* target - (start or now) of task t's call, in microseconds.
Requested(t) ==
    Offset(w_time[t].some)
        - (IF w_start[t] = NoneVal THEN called_at[t] ELSE Offset(w_start[t].some))

(***************************************************************************)
(* C6: until_expiration returns None if expiry is falsy or the parsed      *)
(* expiry timestamp is strictly before now, and a humanized (non-None)     *)
(* duration otherwise: for every non-falsy expiry whose parsed timestamp   *)
(* is at or after now, sub-second components and expiry = now included.    *)
(***************************************************************************)
C6_NoneIffParsedExpiryBeforeNow ==
    (fn = "until_expiration" /\ eresult # Pending /\ e_max_units >= 1) =>
        /\ Returned(eresult)
        /\ eresult.value = NoneVal <=>
              (IF Falsy(date_arg) THEN TRUE
               ELSE Before(Denoted(date_arg.some), NowOf))

\* What the code does instead: it compares the expiry with its sub-second
\* part dropped, so an expiry within the current second counts as expired.
UntilExpirationComparesWholeSeconds ==
    (fn = "until_expiration" /\ eresult # Pending /\ e_max_units >= 1) =>
        /\ Returned(eresult)
        /\ eresult.value = NoneVal <=>
              (IF Falsy(date_arg) THEN TRUE
               ELSE Before([Denoted(date_arg.some) EXCEPT !.microsecond = 0], NowOf))

(***************************************************************************)
(* C9: format_infraction_with_duration returns None exactly when date_to   *)
(* is falsy; otherwise, for every date_from, max_units >= 1 and absolute,  *)
(* the formatted date_to followed by " (" + duration + ")" where duration  *)
(* is the non-empty result of humanize_delta with seconds precision and    *)
(* the given max_units: the parenthesized duration is always present.      *)
(***************************************************************************)
C9_DurationAlwaysPresent ==
    (fn = "format_infraction_with_duration" /\ eresult # Pending /\ e_max_units >= 1) =>
        /\ Returned(eresult)
        /\ eresult.value = NoneVal <=> Falsy(date_arg)
        /\ ~Falsy(date_arg) =>
              LET text     == eresult.value.some
                  duration == SubSeq(text, 19, Len(text) - 1)
              IN  /\ Len(text) > 19
                  /\ SubSeq(text, 1, 16) = DateAndMinute(date_arg.some)
                  /\ SubSeq(text, 17, 18) = " ("
                  /\ SubSeq(text, Len(text), Len(text)) = ")"
                  /\ duration # ""
                  /\ PhraseCount(duration) <= e_max_units
                  /\ Return(duration) =
                        humanize_delta(
                            infraction_delta(date_arg, from_arg, absolute, utcnow),
                            "seconds", e_max_units)

C9_Witness ==
    /\ fn = "format_infraction_with_duration"
    /\ date_arg = Some("2020-01-01T00:01:01.500000")
    /\ from_arg = Some(datetime(2020, 1, 1, 0, 1, 1, 0))
    /\ e_max_units = 1
    /\ eresult = Return(Some("2020-01-01 00:01 (0 seconds)"))

(***************************************************************************)
(* C7: wait_until suspends the calling task if and only if                 *)
(* target - (start or now) exceeds 1.0 second, and then for exactly that   *)
(* duration; at 1.0 second or less (zero and negative included) it         *)
(* completes at once without suspending.  An uncancelled call eventually   *)
(* completes.                                                              *)
(***************************************************************************)
C7_State ==
    \A t \in Tasks :
        pc[t] # "idle" =>
            /\ slept[t] # NoneVal <=> Requested(t) > Micros
            /\ slept[t] # NoneVal =>
                  /\ slept[t] = Some(Requested(t))
                  /\ wake_at[t] = called_at[t] + Requested(t)
            /\ slept[t] = NoneVal => pc[t] = "done" /\ outcome[t] = Return(NoneVal)

C7_Step ==
    \A t \in Tasks :
        (pc[t] = "suspended" /\ outcome'[t] = Return(NoneVal)) =>
            clock >= called_at[t] + Requested(t)

C7_SuspendsIffOverOneSecond ==
    /\ []C7_State
    /\ [][C7_Step]_vars
    /\ \A t \in Tasks : (pc[t] = "suspended") ~> (pc[t] = "done")

C7_Witness ==
    /\ pc["t1"] = "done"
    /\ Requested("t1") = Micros
    /\ slept["t1"] = NoneVal
    /\ pc["t2"] = "done"
    /\ slept["t2"] = Some(3 * HalfSecond)
    /\ outcome["t2"] = Return(NoneVal)
    /\ w_start["t2"] = NoneVal

(***************************************************************************)
(* C8: a wait_until caller cancelled while suspended ends with the         *)
(* cancellation signal: it is never swallowed, the task never completes    *)
(* normally afterwards, and the other tasks suspended in wait_until are    *)
(* not affected.                                                           *)
(***************************************************************************)
C8_State ==
    \A t \in Tasks :
        cancelled[t] => pc[t] = "done" /\ outcome[t] = Raise("CancelledError")

C8_Step ==
    \A t \in Tasks :
        (cancelled'[t] /\ ~cancelled[t]) =>
            /\ pc[t] = "suspended"
            /\ \A u \in Tasks \ {t} :
                  /\ pc'[u] = pc[u]
                  /\ outcome'[u] = outcome[u]
                  /\ slept'[u] = slept[u]
                  /\ wake_at'[u] = wake_at[u]
                  /\ cancelled'[u] = cancelled[u]

C8_CancellationPropagates ==
    /\ []C8_State
    /\ [][C8_Step]_vars

\* t2 has been suspended since the clock was 0; t1, called later, was cancelled.
C8_Witness ==
    /\ cancelled["t1"]
    /\ outcome["t1"] = Raise("CancelledError")
    /\ called_at["t1"] = HalfSecond
    /\ pc["t2"] = "suspended"
    /\ called_at["t2"] = 0
    /\ ~cancelled["t2"]

=============================================================================
